---------------------------- MODULE Spec2Model ----------------------------
(***************************************************************************)
(* The aarch64/QEMU boot stage of the caligae bootloader:                  *)
(*   bin/aarch64/qemu.rs     PL011 UART driver, UART logger, panic         *)
(*                           handler and the entry procedure qemu_entry    *)
(*   src/filesystem/mod.rs   the FileSystem capability contract            *)
(*                                                                         *)
(* A string is a sequence of bytes; a byte is written as a one-character   *)
(* string, so "[INFO] " is <<"[", "I", "N", "F", "O", "]", " ">>.          *)
(* Option<T> is a sequence of length at most one: None is <<>> and         *)
(* Some(x) is <<x>>.                                                       *)
(*                                                                         *)
(* Execution is single-threaded.  Every function that can be on the call   *)
(* stack has its own position variable (entry, log_pc, wr, panic_pc); the  *)
(* innermost active one runs.  A position "Lnnn" means: the statement at   *)
(* line nnn of bin/aarch64/qemu.rs is the next one to execute.             *)
(***************************************************************************)
EXTENDS Integers, Sequences, FiniteSets, TLC

VARIABLES
    entry,       \* position in qemu_entry
    uart,        \* qemu_entry's local `uart`: a handle id, 0 once moved/unbound
    LOGGER,      \* static mut LOGGER: Option<UartPl011Logger>
    registered,  \* the log crate's global sink: "unset" or "LOGGER"
    max_level,   \* the log crate's global maximum LevelFilter
    handles,     \* the live &'static mut Pl011Uart, by id; handles[i] is its base
    tx,          \* the captured stores to the UART data register, oldest first
    log_pc,      \* position in UartPl011Logger::log, "idle" outside a call
    record,      \* the Record of the log call under way (or of the last one)
    wr,          \* the formatted write under way: fmt::write + Pl011Uart::write_str
    panic_pc,    \* position in handle_panic, "idle" until a panic
    info,        \* the PanicInfo handed to handle_panic
    panic_uart,  \* handle_panic's local `uart`
    hist,        \* history: where in tx the log call / the panic began, why it panicked
    enabled_ret, \* the last UartPl011Logger::enabled call: its level and result
    owned,       \* FileDescriptor values the caller holds
    closed,      \* FileDescriptor values consumed by close_file
    next_fd,     \* the identity of the next FileDescriptor a driver hands out
    fs_last      \* the last FileSystem operation: its name, descriptor and outcome

vars == <<entry, uart, LOGGER, registered, max_level, handles, tx, log_pc, record,
          wr, panic_pc, info, panic_uart, hist, enabled_ret,
          owned, closed, next_fd, fs_last>>

bootVars == <<entry, uart, LOGGER, registered, max_level, handles, tx, log_pc, record,
              wr, panic_pc, info, panic_uart, hist, enabled_ret>>

fsVars == <<owned, closed, next_fd, fs_last>>

None == <<>>
Some(x) == <<x>>

(***************************************************************************)
(* Program constants                                                       *)
(***************************************************************************)
\* 0x0900_0000
UART0_ADDR == 150994944

\* log::Level and log::LevelFilter, with their discriminants (`as usize`)
Levels == {"Error", "Warn", "Info", "Debug", "Trace"}
LevelFilters == {"Off"} \cup Levels

LevelDiscriminant(l) ==
    CASE l = "Off" -> 0
      [] l = "Error" -> 1
      [] l = "Warn" -> 2
      [] l = "Info" -> 3
      [] l = "Debug" -> 4
      [] l = "Trace" -> 5

\* Level::to_level_filter: each Level maps to the LevelFilter of the same name
to_level_filter(l) ==
    CASE l = "Error" -> "Error"
      [] l = "Warn" -> "Warn"
      [] l = "Info" -> "Info"
      [] l = "Debug" -> "Debug"
      [] l = "Trace" -> "Trace"

\* Level::as_str
as_str_level(l) ==
    CASE l = "Error" -> <<"E", "R", "R", "O", "R">>
      [] l = "Warn" -> <<"W", "A", "R", "N">>
      [] l = "Info" -> <<"I", "N", "F", "O">>
      [] l = "Debug" -> <<"D", "E", "B", "U", "G">>
      [] l = "Trace" -> <<"T", "R", "A", "C", "E">>

\* fmt::Arguments::as_str: the literal when there is nothing to format
as_str(args) ==
    IF args.nargs = 0 /\ Len(args.pieces) = 0 THEN Some(<<>>)
    ELSE IF args.nargs = 0 /\ Len(args.pieces) = 1 THEN Some(args.pieces[1])
    ELSE None

Digit(d) == <<"0", "1", "2", "3", "4", "5", "6", "7", "8", "9">>[d + 1]

\* Debug/Display of an unsigned integer: its decimal digits, most significant first
RECURSIVE fmt_u32(_)
fmt_u32(n) == IF n < 10 THEN <<Digit(n)>> ELSE fmt_u32(n \div 10) \o <<Digit(n % 10)>>

\* the sentinel of line 116
FallbackStr ==
    <<"C", "o", "u", "l", "d", " ", "n", "o", "t", " ", "g", "e", "t", " ", "l", "o", "g",
      ";", " ", "a", "l", "l", "o", "c", "a", "t", "o", "r", " ", "n", "e", "e", "d", "e", "d">>

\* file!() of bin/aarch64/qemu.rs
ThisFile ==
    <<"b", "i", "n", "/", "a", "a", "r", "c", "h", "6", "4", "/", "q", "e", "m", "u", ".",
      "r", "s">>

\* the Record built by info!("Done with info log") at line 159
SmokeRecord ==
    [level |-> "Info",
     args |-> [pieces |-> << <<"D", "o", "n", "e", " ", "w", "i", "t", "h", " ", "i", "n",
                               "f", "o", " ", "l", "o", "g">> >>,
               nargs |-> 0],
     file |-> Some(ThisFile),
     line |-> Some(159)]

\* the PanicInfo built by panic!("End of bootloader reached") at line 162
EndPanicInfo ==
    [message |-> <<"E", "n", "d", " ", "o", "f", " ", "b", "o", "o", "t", "l", "o", "a", "d",
                   "e", "r", " ", "r", "e", "a", "c", "h", "e", "d">>,
     file |-> ThisFile, line |-> 162, col |-> 5]

\* the PanicInfo of Result::unwrap on the Err of log::set_logger at line 155
SetLoggerPanicInfo ==
    [message |-> <<"u", "n", "w", "r", "a", "p", " ", "E", "r", "r">>,
     file |-> ThisFile, line |-> 155, col |-> 29]

\* the PanicInfo of Result::unwrap on the Err of a formatted write (lines 110-136)
WriteErrPanicInfo ==
    [message |-> <<"u", "n", "w", "r", "a", "p", " ", "E", "r", "r">>,
     file |-> ThisFile, line |-> 110, col |-> 56]

(***************************************************************************)
(* Pl011Uart                                                               *)
(***************************************************************************)
\* Pl011Uart::new(base): one more live reference to the device at `base`
Pl011Uart_new(hs, base) == Append(hs, base)

\* Mmio<u8>::write: one volatile store of `b` to the data register, through handle h
MmioWrite(t, h, b) == Append(t, [uart |-> h, byte |-> b])

\* out_string.bytes(): the iterator yields the bytes front to back
out_byte_last(rest) == rest[Len(rest)]
out_byte(rest) == Head(rest)

bytes_next(rest) == Tail(rest)

\* the value write_str returns (line 73)
write_str_err == "Err"
write_str_result == "Ok"

NoWrite ==
    [by |-> "none", uart |-> 0, pieces |-> <<>>, out_string |-> <<>>, rest |-> <<>>,
     start |-> 0, ret |-> "none"]

\* a formatted write begins: fmt::write hands the first piece to write_str
BeginWrite(who, h, pieces, ret) ==
    [by |-> who, uart |-> h, pieces |-> Tail(pieces), out_string |-> Head(pieces),
     rest |-> Head(pieces), start |-> Len(tx), ret |-> ret]

\* the function whose statements run: a panic pre-empts everything for good, and the
\* frames under it are never resumed
Running ==
    IF panic_pc # "idle" THEN "panic"
    ELSE IF wr.by # "none" THEN "write"
    ELSE IF log_pc # "idle" THEN "log"
    ELSE "entry"

\* a write_str call of the running function is under way
WriteActive == wr.by # "none" /\ (panic_pc # "idle" => wr.by = "panic")

NoRecord ==
    [level |-> "Error", args |-> [pieces |-> <<>>, nargs |-> 0], file |-> None,
     line |-> None]

NoInfo == [message |-> <<>>, file |-> <<>>, line |-> 0, col |-> 0]

Init ==
    /\ entry = "L148"
    /\ uart = 0
    /\ LOGGER = None
    /\ registered = "unset"
    /\ max_level = "Off"
    /\ handles = <<>>
    /\ tx = <<>>
    /\ log_pc = "idle"
    /\ record = NoRecord
    /\ wr = NoWrite
    /\ panic_pc = "idle"
    /\ info = NoInfo
    /\ panic_uart = 0
    /\ hist = [log_start |-> 0, panic_start |-> 0, cause |-> "none", depth |-> 0]
    /\ enabled_ret = None
    /\ owned = {}
    /\ closed = {}
    /\ next_fd = 1
    /\ fs_last = [op |-> "none", fd |-> 0, ret |-> "none"]

\* the runtime invokes handle_panic(i); nothing below it on the stack runs again
EnterPanic(i, why) ==
    /\ panic_pc' = "L134"
    /\ info' = i
    /\ hist' = [hist EXCEPT !.panic_start = Len(tx), !.cause = why, !.depth = @ + 1]

(***************************************************************************)
(* Pl011Uart::write_str under core::fmt::write                             *)
(***************************************************************************)
\* lines 70-72: one iteration of the loop stores one byte
WriteByte ==
    /\ WriteActive
    /\ wr.rest # <<>>
    /\ tx' = MmioWrite(tx, wr.uart, out_byte(wr.rest))
    /\ wr' = [wr EXCEPT !.rest = bytes_next(@)]
    /\ UNCHANGED <<entry, uart, LOGGER, registered, max_level, handles, log_pc, record,
                   panic_pc, info, panic_uart, hist, enabled_ret, fsVars>>

\* line 73: the loop is over and write_str returns.  On Ok, fmt::write hands over
\* the next piece, or itself returns Ok and the caller's unwrap passes; on Err the
\* caller's unwrap panics.
WriteStrReturn ==
    /\ WriteActive
    /\ wr.rest = <<>>
    /\ IF write_str_result # "Ok"
         THEN /\ EnterPanic(WriteErrPanicInfo, "write_err")
              /\ wr' = NoWrite
              /\ UNCHANGED log_pc
         ELSE IF wr.pieces # <<>>
         THEN /\ wr' = [wr EXCEPT !.pieces = Tail(@), !.out_string = Head(wr.pieces),
                                  !.rest = Head(wr.pieces), !.start = Len(tx)]
              /\ UNCHANGED <<log_pc, panic_pc, info, hist>>
         ELSE /\ wr' = NoWrite
              /\ IF wr.by = "log"
                   THEN log_pc' = wr.ret /\ UNCHANGED panic_pc
                   ELSE panic_pc' = wr.ret /\ UNCHANGED log_pc
              /\ UNCHANGED <<info, hist>>
    /\ UNCHANGED <<entry, uart, LOGGER, registered, max_level, handles, tx, record,
                   panic_uart, enabled_ret, fsVars>>

(***************************************************************************)
(* UartPl011Logger                                                         *)
(***************************************************************************)
\* line 96
enabled_lt(level) ==
    LevelDiscriminant(to_level_filter(level)) < LevelDiscriminant(max_level)
enabled(level) ==
    LevelDiscriminant(to_level_filter(level)) <= LevelDiscriminant(max_level)

\* line 107: log borrows the handle stored in the logger; it constructs none
log_uart_new(hs) == Pl011Uart_new(hs, UART0_ADDR)
log_uart(hs) == hs

\* line 110: "[{}] " with record.level().as_str()
LevelPieces(r) == << <<"[">>, as_str_level(r.level), <<"]", " ">> >>

\* lines 113-118: the message when it is a plain literal, else the sentinel
LogArgsText_abort(r) == IF as_str(r.args) # None THEN as_str(r.args)[1] ELSE <<>>
LogArgsText(r) == IF as_str(r.args) # None THEN as_str(r.args)[1] ELSE FallbackStr

\* line 121: both the file name and the line number are there
HasLocation(r) == r.file # None /\ r.line # None

\* line 122: ", {}:{:?}" with the file name and the line number
LocationPieces_noline(r) == << <<",", " ">>, r.file[1] >>
LocationPieces(r) == << <<",", " ">>, r.file[1], <<":">>, fmt_u32(r.line[1]) >>

\* lines 107-110
LogLevel ==
    /\ Running = "log"
    /\ log_pc = "L107"
    /\ handles' = log_uart(handles)
    /\ wr' = BeginWrite("log", LOGGER[1].uart, LevelPieces(record), "L113")
    /\ log_pc' = "L110"
    /\ UNCHANGED <<entry, uart, LOGGER, registered, max_level, tx, record, panic_pc,
                   info, panic_uart, hist, enabled_ret, fsVars>>

\* lines 113-118
LogArgs ==
    /\ Running = "log"
    /\ log_pc = "L113"
    /\ wr' = BeginWrite("log", LOGGER[1].uart, <<LogArgsText(record)>>, "L121")
    /\ UNCHANGED <<entry, uart, LOGGER, registered, max_level, handles, tx, log_pc,
                   record, panic_pc, info, panic_uart, hist, enabled_ret, fsVars>>

\* lines 121-123
LogLocation ==
    /\ Running = "log"
    /\ log_pc = "L121"
    /\ IF HasLocation(record)
         THEN /\ wr' = BeginWrite("log", LOGGER[1].uart, LocationPieces(record), "L125")
              /\ log_pc' = "L122"
         ELSE /\ log_pc' = "L125"
              /\ UNCHANGED wr
    /\ UNCHANGED <<entry, uart, LOGGER, registered, max_level, handles, tx, record,
                   panic_pc, info, panic_uart, hist, enabled_ret, fsVars>>

\* line 125: write_char encodes '\n' as one byte and calls write_str
LogNewline ==
    /\ Running = "log"
    /\ log_pc = "L125"
    /\ wr' = BeginWrite("log", LOGGER[1].uart, << <<"\n">> >>, "L126")
    /\ UNCHANGED <<entry, uart, LOGGER, registered, max_level, handles, tx, log_pc,
                   record, panic_pc, info, panic_uart, hist, enabled_ret, fsVars>>

\* line 126: log returns; the info! of line 159 is then complete
LogReturn ==
    /\ Running = "log"
    /\ log_pc = "L126"
    /\ log_pc' = "idle"
    /\ entry' = IF entry = "L159" THEN "L162" ELSE entry
    /\ UNCHANGED <<uart, LOGGER, registered, max_level, handles, tx, record, wr,
                   panic_pc, info, panic_uart, hist, enabled_ret, fsVars>>

(***************************************************************************)
(* handle_panic                                                            *)
(***************************************************************************)
\* Display of PanicInfo, as the toolchains with feature(panic_info_message) print it:
\* panicked at '<message>', <file>:<line>:<col>
DisplayPanicInfo(i) ==
    << <<"p", "a", "n", "i", "c", "k", "e", "d", " ", "a", "t", " ">>,
       <<"'">>, i.message, <<"'", ",", " ">>,
       i.file, <<":">>, fmt_u32(i.line), <<":">>, fmt_u32(i.col) >>

\* line 136: writeln!(uart, "[PANIC] {}", info)
PanicPieces_nonl(i) ==
    << <<"[", "P", "A", "N", "I", "C", "]", " ">> >> \o DisplayPanicInfo(i)
PanicPieces(i) ==
    << <<"[", "P", "A", "N", "I", "C", "]", " ">> >> \o DisplayPanicInfo(i)
        \o << <<"\n">> >>

\* line 134
PanicUartInit ==
    /\ panic_pc = "L134"
    /\ handles' = Pl011Uart_new(handles, UART0_ADDR)
    /\ panic_uart' = Len(handles')
    /\ panic_pc' = "L136"
    /\ UNCHANGED <<entry, uart, LOGGER, registered, max_level, tx, log_pc, record, wr,
                   info, hist, enabled_ret, fsVars>>

\* line 136; a write the panic interrupted is abandoned
PanicWrite ==
    /\ panic_pc = "L136"
    /\ wr.by # "panic"
    /\ wr' = BeginWrite("panic", panic_uart, PanicPieces(info), "L137")
    /\ UNCHANGED <<entry, uart, LOGGER, registered, max_level, handles, tx, log_pc,
                   record, panic_pc, info, panic_uart, hist, enabled_ret, fsVars>>

\* line 137: loop {}
HaltLoop ==
    /\ panic_pc = "L137"
    /\ UNCHANGED vars

(***************************************************************************)
(* qemu_entry                                                              *)
(***************************************************************************)
\* line 148
UartInit ==
    /\ Running = "entry"
    /\ entry = "L148"
    /\ handles' = Pl011Uart_new(handles, UART0_ADDR)
    /\ uart' = Len(handles')
    /\ entry' = "L152"
    /\ UNCHANGED <<LOGGER, registered, max_level, tx, log_pc, record, wr, panic_pc, info,
                   panic_uart, hist, enabled_ret, fsVars>>

\* lines 151-154: uart moves into the singleton; as_ref().unwrap() sees the Some
LoggerPopulate ==
    /\ Running = "entry"
    /\ entry = "L152"
    /\ LOGGER' = Some([uart |-> uart])
    /\ uart' = 0
    /\ entry' = "L155"
    /\ UNCHANGED <<registered, max_level, handles, tx, log_pc, record, wr, panic_pc, info,
                   panic_uart, hist, enabled_ret, fsVars>>

\* line 155: log::set_logger is Ok the first time and Err(SetLoggerError) after
SetLogger ==
    /\ Running = "entry"
    /\ entry = "L155"
    /\ IF registered = "unset"
         THEN /\ registered' = "LOGGER"
              /\ entry' = "L156"
              /\ UNCHANGED <<panic_pc, info, hist>>
         ELSE /\ EnterPanic(SetLoggerPanicInfo, "set_logger")
              /\ UNCHANGED <<registered, entry>>
    /\ UNCHANGED <<uart, LOGGER, max_level, handles, tx, log_pc, record, wr, panic_uart,
                   enabled_ret, fsVars>>

\* line 156
EntryMaxLevel_Warn == "Warn"
EntryMaxLevel == "Debug"

SetMaxLevel ==
    /\ Running = "entry"
    /\ entry = "L156"
    /\ max_level' = EntryMaxLevel
    /\ entry' = "L159"
    /\ UNCHANGED <<uart, LOGGER, registered, handles, tx, log_pc, record, wr,
                   panic_pc, info, panic_uart, hist, enabled_ret, fsVars>>

\* line 159: info! builds the record and calls the registered sink's log when Info is
\* within log::max_level(); an unset sink is the crate's no-op logger
InfoMacro ==
    /\ Running = "entry"
    /\ entry = "L159"
    /\ IF LevelDiscriminant("Info") <= LevelDiscriminant(max_level)
          /\ registered = "LOGGER"
         THEN /\ log_pc' = "L107"
              /\ record' = SmokeRecord
              /\ hist' = [hist EXCEPT !.log_start = Len(tx)]
              /\ UNCHANGED entry
         ELSE /\ entry' = "L162"
              /\ UNCHANGED <<log_pc, record, hist>>
    /\ UNCHANGED <<uart, LOGGER, registered, max_level, handles, tx, wr, panic_pc, info,
                   panic_uart, enabled_ret, fsVars>>

\* line 162
EndPanic_return ==
    /\ Running = "entry"
    /\ entry = "L162"
    /\ entry' = "returned"
    /\ UNCHANGED <<uart, LOGGER, registered, max_level, handles, tx, log_pc, record, wr,
                   panic_pc, info, panic_uart, hist, enabled_ret, fsVars>>

EndPanic ==
    /\ Running = "entry"
    /\ entry = "L162"
    /\ EnterPanic(EndPanicInfo, "explicit")
    /\ UNCHANGED <<entry, uart, LOGGER, registered, max_level, handles, tx, log_pc, record,
                   wr, panic_uart, enabled_ret, fsVars>>

(***************************************************************************)
(* The boot as built: the startup stub calls qemu_entry once                *)
(***************************************************************************)
Next ==
    \/ UartInit
    \/ LoggerPopulate
    \/ SetLogger
    \/ SetMaxLevel
    \/ InfoMacro
    \/ LogLevel
    \/ LogArgs
    \/ LogLocation
    \/ LogNewline
    \/ LogReturn
    \/ WriteByte
    \/ WriteStrReturn
    \/ EndPanic
    \/ PanicUartInit
    \/ PanicWrite
    \/ HaltLoop

Spec == Init /\ [][Next]_vars

\* the single execution context always takes its next step
FairSpec == Spec /\ WF_vars(Next)

(***************************************************************************)
(* The components under any caller: once the entry procedure has installed  *)
(* the logger, code that runs in its place may log any record, set any      *)
(* maximum level and ask enabled for any level, and a fault may invoke the  *)
(* panic handler at any point.                                              *)
(***************************************************************************)
ClientArgs ==
    { [pieces |-> <<>>, nargs |-> 0],
      [pieces |-> << <<"h", "i">> >>, nargs |-> 0],
      [pieces |-> << <<"x", "=">> >>, nargs |-> 1] }

ClientFiles == { None, Some(<<"m", ".", "r", "s">>) }

ClientLines == { None, Some(120) }

ClientRecords ==
    [level : Levels, args : ClientArgs, file : ClientFiles, line : ClientLines]

FaultInfos == { [message |-> <<"o", "o", "m">>, file |-> <<"a", ".", "r", "s">>,
                 line |-> 34, col |-> 9] }

\* logger().log(&r) on the registered sink; the capture of the stores starts afresh
ClientLog(r) ==
    /\ Running = "entry"
    /\ entry = "L162"
    /\ registered = "LOGGER"
    /\ log_pc' = "L107"
    /\ record' = r
    /\ tx' = <<>>
    /\ hist' = [hist EXCEPT !.log_start = 0]
    /\ UNCHANGED <<entry, uart, LOGGER, registered, max_level, handles, wr, panic_pc,
                   info, panic_uart, enabled_ret, fsVars>>

\* log::set_max_level(m)
ClientSetMaxLevel(m) ==
    /\ Running = "entry"
    /\ entry = "L162"
    /\ max_level' = m
    /\ UNCHANGED <<entry, uart, LOGGER, registered, handles, tx, log_pc, record, wr,
                   panic_pc, info, panic_uart, hist, enabled_ret, fsVars>>

\* LOGGER.enabled(metadata) for a metadata of level l (lines 95-97)
ClientEnabled(l) ==
    /\ Running = "entry"
    /\ LOGGER # None
    /\ enabled_ret' = Some([level |-> l, max |-> max_level, ret |-> enabled(l)])
    /\ UNCHANGED <<entry, uart, LOGGER, registered, max_level, handles, tx, log_pc,
                   record, wr, panic_pc, info, panic_uart, hist, fsVars>>

\* an unrecoverable fault: the runtime invokes handle_panic(i)
Fault(i) ==
    /\ panic_pc = "idle"
    /\ EnterPanic(i, "fault")
    /\ UNCHANGED <<entry, uart, LOGGER, registered, max_level, handles, tx, log_pc, record,
                   wr, panic_uart, enabled_ret, fsVars>>

\* the boot, then any records logged, with a fault possible at any point
EnvNext ==
    \/ Next
    \/ \E r \in ClientRecords : ClientLog(r)
    \/ \E i \in FaultInfos : Fault(i)

EnvSpec == Init /\ [][EnvNext]_vars

\* the boot, with any maximum level set and enabled asked for any level
LevelNext ==
    \/ Next
    \/ \E m \in LevelFilters : ClientSetMaxLevel(m)
    \/ \E l \in Levels : ClientEnabled(l)

LevelSpec == Init /\ [][LevelNext]_vars


(***************************************************************************)
(* The FileSystem contract (src/filesystem/mod.rs).  No driver implements   *)
(* it yet, so what a driver does inside an operation is left open; what the *)
(* signatures fix is who holds a FileDescriptor.  FileDescriptor derives    *)
(* only Debug: a value is never copied, it is handed out by open_file,      *)
(* lent (&mut) to read_file, seek_file and get_size, and moved into         *)
(* close_file.  Descriptors are told apart by the order they were opened.   *)
(***************************************************************************)
\* the most descriptors a caller opens
MaxFd == 3

OpenFileError ==
    {"PathTooLong", "ComponentTooLong", "InvalidCharset", "FileNotFound", "DeviceError",
     "AccessDenied", "FileSystemCorrupted", "DirectoryNotFound", "IsFile", "IsDirectory"}

\* what the caller holds after close_file(descriptor): the argument is taken by value
close_file_borrowed(held, fd) == held
close_file_moved(held, fd) == held \ {fd}

\* line 13: Result<FileDescriptor, OpenFileError>, whichever the driver decides
open_file ==
    \/ /\ next_fd <= MaxFd
       /\ owned' = owned \cup {next_fd}
       /\ next_fd' = next_fd + 1
       /\ fs_last' = [op |-> "open_file", fd |-> next_fd, ret |-> "Ok"]
       /\ UNCHANGED <<closed, bootVars>>
    \/ \E e \in OpenFileError :
          /\ fs_last' = [op |-> "open_file", fd |-> 0, ret |-> e]
          /\ UNCHANGED <<owned, closed, next_fd, bootVars>>

\* line 15
close_file(fd) ==
    /\ fd \in owned
    /\ owned' = close_file_moved(owned, fd)
    /\ closed' = closed \cup {fd}
    /\ fs_last' = [op |-> "close_file", fd |-> fd, ret |-> "unit"]
    /\ UNCHANGED <<next_fd, bootVars>>

\* line 17
read_file(fd) ==
    /\ fd \in owned
    /\ fs_last' = [op |-> "read_file", fd |-> fd, ret |-> "unit"]
    /\ UNCHANGED <<owned, closed, next_fd, bootVars>>

\* line 19
seek_file(fd) ==
    /\ fd \in owned
    /\ fs_last' = [op |-> "seek_file", fd |-> fd, ret |-> "unit"]
    /\ UNCHANGED <<owned, closed, next_fd, bootVars>>

\* line 21
get_size(fd) ==
    /\ fd \in owned
    /\ fs_last' = [op |-> "get_size", fd |-> fd, ret |-> "u64"]
    /\ UNCHANGED <<owned, closed, next_fd, bootVars>>

FsNext ==
    \/ open_file
    \/ \E fd \in 1..MaxFd : close_file(fd)
    \/ \E fd \in 1..MaxFd : read_file(fd)
    \/ \E fd \in 1..MaxFd : seek_file(fd)
    \/ \E fd \in 1..MaxFd : get_size(fd)

FsSpec == Init /\ [][FsNext]_vars


(***************************************************************************)
(* Properties.  The expected texts below are written out byte by byte, so   *)
(* that they do not depend on the definitions that model the formatting.    *)
(***************************************************************************)
\* the bytes a sequence of stores carried
Bytes(t) == [i \in 1..Len(t) |-> t[i].byte]

IsPrefix(a, b) == Len(a) <= Len(b) /\ SubSeq(b, 1, Len(a)) = a

ExpLevelTag(l) ==
    CASE l = "Error" -> <<"[", "E", "R", "R", "O", "R", "]", " ">>
      [] l = "Warn" -> <<"[", "W", "A", "R", "N", "]", " ">>
      [] l = "Info" -> <<"[", "I", "N", "F", "O", "]", " ">>
      [] l = "Debug" -> <<"[", "D", "E", "B", "U", "G", "]", " ">>
      [] l = "Trace" -> <<"[", "T", "R", "A", "C", "E", "]", " ">>

ExpFallback ==
    <<"C", "o", "u", "l", "d", " ", "n", "o", "t", " ", "g", "e", "t", " ", "l", "o", "g",
      ";", " ", "a", "l", "l", "o", "c", "a", "t", "o", "r", " ", "n", "e", "e", "d", "e", "d">>

\* the message of a record whose arguments are a plain literal, else the sentinel
ExpBody(r) ==
    IF r.args.nargs = 0 /\ Len(r.args.pieces) = 0 THEN <<>>
    ELSE IF r.args.nargs = 0 /\ Len(r.args.pieces) = 1 THEN r.args.pieces[1]
    ELSE ExpFallback

ExpLineText(n) ==
    CASE n = 120 -> <<"1", "2", "0">>
      [] n = 159 -> <<"1", "5", "9">>

ExpSuffix(r) ==
    IF r.file # None /\ r.line # None
      THEN <<",", " ">> \o r.file[1] \o <<":">> \o ExpLineText(r.line[1])
      ELSE <<>>

ExpInfoText(i) ==
    IF i.line = 34
      THEN <<"p", "a", "n", "i", "c", "k", "e", "d", " ", "a", "t", " ", "'", "o", "o", "m",
             "'", ",", " ", "a", ".", "r", "s", ":", "3", "4", ":", "9">>
      ELSE <<"p", "a", "n", "i", "c", "k", "e", "d", " ", "a", "t", " ", "'", "E", "n", "d",
             " ", "o", "f", " ", "b", "o", "o", "t", "l", "o", "a", "d", "e", "r", " ", "r",
             "e", "a", "c", "h", "e", "d", "'", ",", " ", "b", "i", "n", "/", "a", "a", "r",
             "c", "h", "6", "4", "/", "q", "e", "m", "u", ".", "r", "s", ":", "1", "6", "2",
             ":", "5">>

SmokeLine ==
    <<"[", "I", "N", "F", "O", "]", " ", "D", "o", "n", "e", " ", "w", "i", "t", "h", " ",
      "i", "n", "f", "o", " ", "l", "o", "g", ",", " ", "b", "i", "n", "/", "a", "a", "r",
      "c", "h", "6", "4", "/", "q", "e", "m", "u", ".", "r", "s", ":", "1", "5", "9", "\n">>

EndPanicLine ==
    <<"[", "P", "A", "N", "I", "C", "]", " ">> \o ExpInfoText(EndPanicInfo) \o <<"\n">>

\* the bytes stored since the log call began / since the panic handler was entered
LogOut == Bytes(SubSeq(tx, hist.log_start + 1, Len(tx)))
PanicStores == SubSeq(tx, hist.panic_start + 1, Len(tx))

\* the log call has executed line 125 and is about to return
LogDone == log_pc = "L126" /\ panic_pc = "idle"

Halted == panic_pc = "L137"

\* C1: every write_str call stores its bytes one at a time and in order: while the
\* call runs, the stores made since it began are the bytes already iterated, each
\* through the call's handle, and what is left to store is the rest of the string;
\* when the loop ends there are exactly len(s) stores (none for an empty s).
C1_WriteStrStoresEachByteInOrder ==
    wr.by # "none" =>
        LET done == SubSeq(tx, wr.start + 1, Len(tx))
            s == wr.out_string
        IN /\ Len(done) <= Len(s)
           /\ \A i \in 1..Len(done) : done[i] = [uart |-> wr.uart, byte |-> s[i]]
           /\ wr.rest = SubSeq(s, Len(done) + 1, Len(s))
           /\ (wr.rest = <<>> => Len(done) = Len(s))

C1_Witness ==
    /\ wr.by = "log"
    /\ panic_pc = "idle"
    /\ wr.rest = <<>>
    /\ wr.out_string = <<"h", "i">>
    /\ Len(tx) = wr.start + 2

\* C2: what a completed log call stored between the message and the final newline
\* is ", <file>:<line>" when the record has both a file and a line, and nothing at
\* all when it lacks either.
C2_SuffixIffFileAndLine ==
    LogDone =>
        LET n == Len(ExpLevelTag(record.level)) + Len(ExpBody(record))
            tail == SubSeq(LogOut, n + 1, Len(LogOut) - 1)
        IN IF record.file # None /\ record.line # None
             THEN tail = <<",", " ">> \o record.file[1] \o <<":">>
                             \o ExpLineText(record.line[1])
             ELSE tail = <<>>

C2_Witness ==
    /\ LogDone
    /\ record.file # None
    /\ record.line = None
    /\ Len(LogOut) > 0

\* C3: a log call stores "[<LEVEL>] ", then the literal message or else the
\* sentinel, then the location suffix if any, then one newline, in that order: at
\* every point of the call the bytes stored so far are a prefix of that line, at its
\* end they are the whole line, and the sentinel branch never panics.
C3_LogLineLayout ==
    LET line == ExpLevelTag(record.level) \o ExpBody(record) \o ExpSuffix(record)
                    \o <<"\n">>
    IN /\ (log_pc # "idle" /\ panic_pc = "idle") => IsPrefix(LogOut, line)
       /\ LogDone => LogOut = line
       /\ hist.cause # "write_err"

C3_Witness ==
    /\ LogDone
    /\ as_str(record.args) = None
    /\ IsPrefix(ExpLevelTag(record.level) \o ExpFallback, LogOut)

\* C4: enabled(L) is true exactly when L is at or below the maximum level in the
\* order Off < Error < Warn < Info < Debug < Trace; it is false for every L while
\* the maximum is Off.
SeverityOrder == <<"Off", "Error", "Warn", "Info", "Debug", "Trace">>
SeverityRank(x) == CHOOSE i \in 1..Len(SeverityOrder) : SeverityOrder[i] = x

C4_EnabledIffAtOrBelowMax ==
    enabled_ret # None =>
        LET q == enabled_ret[1]
        IN /\ q.ret = (SeverityRank(q.level) <= SeverityRank(q.max))
           /\ (q.max = "Off" => q.ret = FALSE)

C4_Witness ==
    /\ enabled_ret # None
    /\ enabled_ret[1].level = "Warn"
    /\ enabled_ret[1].max = "Warn"
    /\ enabled_ret[1].ret = TRUE

\* what the panic handler has done once it sits in its halt loop
C5_PanicLine ==
    Halted =>
        /\ Bytes(PanicStores) = <<"[", "P", "A", "N", "I", "C", "]", " ">>
                                    \o ExpInfoText(info) \o <<"\n">>
        /\ \A i \in 1..Len(PanicStores) : PanicStores[i].uart = panic_uart
        /\ panic_uart = Len(handles)
        /\ handles[panic_uart] = UART0_ADDR
        /\ (LOGGER # None => LOGGER[1].uart # panic_uart)

\* C5: whatever the logger was doing when the panic handler was invoked, the handler
\* builds a handle of its own at UART0_ADDR, stores exactly "[PANIC] <info>\n"
\* through it and halts; a halted machine never changes state again.
C5_PanicEmitsThenHaltsForGood ==
    /\ []C5_PanicLine
    /\ [][Halted => UNCHANGED vars]_vars
    /\ [][panic_pc # "idle" => (panic_pc' # "idle" /\ info' = info)]_vars

C5_Witness ==
    /\ Halted
    /\ hist.cause = "fault"
    /\ log_pc = "L110"
    /\ LOGGER # None

\* the states of the entry procedure's state machine, by its position
Phase ==
    CASE entry = "L148" -> "PowerOn"
      [] entry \in {"L152", "L155", "L156"} -> "UartReady"
      [] entry = "L159" -> "LoggerInstalled"
      [] entry = "L162" -> "Operational"
      [] OTHER -> "Returned"

PhaseSteps ==
    { <<"PowerOn", "UartReady">>, <<"UartReady", "LoggerInstalled">>,
      <<"LoggerInstalled", "Operational">> }

C6_Order ==
    \* the handle exists before the singleton holds it
    /\ LOGGER # None =>
          /\ LOGGER[1].uart \in 1..Len(handles)
          /\ handles[LOGGER[1].uart] = UART0_ADDR
          /\ Phase # "PowerOn"
    \* the singleton is populated before it is registered, and both before Debug is set
    /\ registered = "LOGGER" => LOGGER # None
    /\ max_level \in {"Off", "Debug"}
    /\ max_level = "Debug" => (registered = "LOGGER" /\ LOGGER # None)
    /\ Phase \in {"LoggerInstalled", "Operational"} =>
          (max_level = "Debug" /\ registered = "LOGGER" /\ LOGGER # None)
    \* no byte is stored before the logger is installed
    /\ tx # <<>> => Phase \in {"LoggerInstalled", "Operational"}
    \* the smoke-test record is on the UART when Operational is reached
    /\ (Phase = "Operational" /\ panic_pc = "idle") => Bytes(tx) = SmokeLine
    /\ (Phase = "LoggerInstalled" /\ panic_pc = "idle") => IsPrefix(Bytes(tx), SmokeLine)

\* C6: qemu_entry goes PowerOn, UartReady, LoggerInstalled, Operational, one step at
\* a time and never back; the handle is built before the singleton is populated,
\* the singleton is populated and registered once, before the maximum level becomes
\* Debug; no byte is stored before the logger is installed, and the smoke-test line
\* is on the UART when Operational is reached.
C6_EntryStateMachine ==
    /\ []C6_Order
    /\ [][Phase' = Phase \/ <<Phase, Phase'>> \in PhaseSteps]_vars
    /\ [][LOGGER # None => LOGGER' = LOGGER]_vars
    /\ [][registered # "unset" => registered' = registered]_vars
    /\ [][max_level # "Off" => max_level' = max_level]_vars

C6_Witness ==
    /\ Phase = "Operational"
    /\ panic_pc = "idle"
    /\ Bytes(tx) = SmokeLine
    /\ max_level = "Debug"

\* C7: every boot ends halted in the panic handler and stays there, qemu_entry never
\* returns, a panic once entered always reaches the halt loop, and the whole UART
\* output of the boot is the smoke-test line followed by the "[PANIC] ..." line.
C7_BootEndsHalted ==
    /\ <>[]Halted
    /\ [](entry # "returned")
    /\ [](panic_pc # "idle" => <>Halted)
    /\ [](Halted => (Bytes(tx) = SmokeLine \o EndPanicLine /\ entry = "L162"))

C7_Witness ==
    /\ Halted
    /\ hist.cause = "explicit"
    /\ Len(tx) = Len(SmokeLine) + Len(EndPanicLine)

C8_Held ==
    /\ owned \cap closed = {}
    /\ owned \cup closed = 1..(next_fd - 1)
    /\ fs_last.op = "open_file" =>
          \/ fs_last.ret = "Ok" /\ fs_last.fd \in owned \cup closed
          \/ fs_last.ret \in OpenFileError /\ fs_last.fd = 0
    /\ fs_last.op \in {"read_file", "seek_file", "get_size"} => fs_last.fd \in owned
    /\ fs_last.op = "close_file" => fs_last.fd \in closed

C8_Step ==
    fs_last' # fs_last =>
        /\ fs_last'.op \in {"close_file", "read_file", "seek_file", "get_size"} =>
              (fs_last'.fd \notin closed /\ fs_last'.fd \in owned)
        /\ (fs_last'.op = "open_file" /\ fs_last'.ret # "Ok") =>
              (owned' = owned /\ closed' = closed /\ next_fd' = next_fd)
        /\ closed \subseteq closed'

C9_WritesNeverFail ==
    /\ hist.cause \in {"none", "explicit", "fault", "set_logger"}
    /\ hist.depth <= 1
    /\ (hist.depth = 1) = (panic_pc # "idle")

C9_Witness ==
    /\ Halted
    /\ hist.cause = "fault"
    /\ log_pc = "idle"
    /\ entry = "L162"
    /\ hist.panic_start > 0
    /\ record \in ClientRecords

C10_Handles ==
    /\ Len(handles) <= 2
    /\ \A h \in 1..Len(handles) : handles[h] = UART0_ADDR
    /\ panic_pc = "idle" => Len(handles) <= 1
    /\ LOGGER # None => (LOGGER[1].uart = 1 /\ uart = 0)
    /\ (LOGGER = None /\ uart # 0) => uart = 1
    /\ Len(handles) = 2 => (panic_uart = 2 /\ panic_pc \notin {"idle", "L134"})

\* C10: before a panic there is at most one live UART handle, the one qemu_entry
\* built and moved into the logger singleton; only the panic handler builds a second
\* one, so there are never more than two, and more than one only once a panic has
\* been entered.
C10_OneHandleUntilPanic ==
    /\ []C10_Handles
    /\ [][Len(handles') > Len(handles) =>
             \/ (Len(handles) = 0 /\ entry = "L148" /\ panic_pc = "idle")
             \/ panic_pc = "L134"]_vars

C10_Witness ==
    /\ Len(handles) = 2
    /\ LOGGER # None
    /\ panic_uart = 2
    /\ wr.by = "panic"

=============================================================================
